---- MODULE Spec2Model ----
(***************************************************************************)
(* A model of the IonDB flat file store (src/dictionary/flat_file/         *)
(* flat_file.c): one data file of fixed-size rows                          *)
(*      | STATUS (1) | KEY (key_size) | VALUE (value_size) |               *)
(* a buffered linear scan over a predicate, a row writer, and the four     *)
(* dictionary operations insert / get / delete / update built on them.     *)
(* The data file is modelled byte by byte.                                 *)
(***************************************************************************)
EXTENDS Integers, Sequences, FiniteSets, TLC

(***************************************************************************)
(* Bounds of the model.                                                    *)
(***************************************************************************)
\* The data file never holds more than MaxRows rows.
MaxRows == 3
\* dictionary_size given to flat_file_initialize ranges over 0..MaxBuffered.
MaxBuffered == 3
\* At most MaxFaults calls of one behaviour of SpecIO suffer a failing write.
MaxFaults == 1

(***************************************************************************)
(* Geometry and constants of the store.                                    *)
(***************************************************************************)
key_size == 2
value_size == 1
status_size == 1
start_of_data == 0
row_size == status_size + key_size + value_size

FLAT_FILE_STATUS_EMPTY == 0
FLAT_FILE_STATUS_OCCUPIED == 1

\* By default, we don't use sorted mode; nothing ever turns it on.
sorted_mode == FALSE

\* A NULL key or value pointer of a row handed to flat_file_write_row.
NULL == << >>

\* The start_location flag for "start of file or end of file".
NATURAL_START == -1

\* The keys and values the callers use (byte strings of key_size and value_size).
\* AbsentKey is looked up, scanned for and deleted, but never written.
Keys == { <<1, 1>>, <<1, 2>> }
AbsentKey == <<2, 1>>
AllKeys == Keys \cup {AbsentKey}
Values == { <<1>>, <<2>> }

\* The keys 1 .. 4 and the values of the scripted scenario, as the bytes of
\* little-endian integers of key_size and value_size bytes.
ScenarioKey(n) == [j \in 1..key_size |-> IF j = 1 THEN n ELSE 0]
ScenarioValue(n) == [j \in 1..value_size |-> IF j = 1 THEN n ELSE 0]
ScenarioKeys == { ScenarioKey(n) : n \in 1..4 }

\* The entries the callers write: the first key with either value, so that
\* the rows of one key can differ, and a second key.
Entries == { <<k, v>> \in Keys \X Values : k = <<1, 1>> \/ v = <<1>> }

ION_STATUS_INITIALIZE == [error |-> "err_status_uninitialized", count |-> 0]

\* The row variable of a caller before any scan has written to it.
NoRow == [row_status |-> -1, key |-> NULL, value |-> NULL]

Min(a, b) == IF a < b THEN a ELSE b

(***************************************************************************)
(* The data file: a sequence of bytes; offsets are 0-based as in C.        *)
(***************************************************************************)
\* WriteAt that never seeks: the bytes go to the end of the file.
WriteAt_Append(f, offset, bytes) == f \o bytes

\* fseek(offset, SEEK_SET) followed by fwrite of bytes: overwrites in place,
\* grows the file at its end, zero-fills a gap past the old end.
WriteAt(f, offset, bytes) ==
    LET gap == [i \in 1..(offset - Len(f)) |-> 0]
    IN  SubSeq(f, 1, Min(offset, Len(f))) \o gap \o bytes
            \o SubSeq(f, offset + Len(bytes) + 1, Len(f))

\* RowAt with the key size left out of the offset of the value.
RowAt_ValueAtKey(f, off) ==
    [row_status |-> f[off + 1],
     key        |-> SubSeq(f, off + status_size + 1, off + status_size + key_size),
     value      |-> SubSeq(f, off + status_size + 1, off + status_size + value_size)]

\* The row a scan sees in the bytes at byte offset off (status, key, value).
RowAt(f, off) ==
    [row_status |-> f[off + 1],
     key        |-> SubSeq(f, off + status_size + 1, off + status_size + key_size),
     value      |-> SubSeq(f, off + status_size + key_size + 1, off + row_size)]

\* Rows of the file as flat_file_scan counts them at a fall-through.
RowCount(f) == (Len(f) - start_of_data) \div row_size

(***************************************************************************)
(* Predicates.                                                             *)
(***************************************************************************)
\* The comparator the dictionary supplies: 0 iff the first n bytes agree.
compare(a, b, n) ==
    IF \A i \in 1..n : a[i] = b[i] THEN 0 ELSE 1

\* flat_file_predicate_empty testing for the wrong status.
flat_file_predicate_empty_Occupied(row) ==
    FLAT_FILE_STATUS_OCCUPIED = row.row_status

flat_file_predicate_empty(row) ==
    FLAT_FILE_STATUS_EMPTY = row.row_status

\* flat_file_predicate_key_match without the test of the status.
flat_file_predicate_key_match_AnyStatus(row, target_key) ==
    0 = compare(target_key, row.key, key_size)

flat_file_predicate_key_match(row, target_key) ==
    /\ FLAT_FILE_STATUS_OCCUPIED = row.row_status
    /\ 0 = compare(target_key, row.key, key_size)

\* predicate calling the empty-row test whatever predicate was passed.
predicate_AlwaysEmpty(pred, row, target_key) ==
    flat_file_predicate_empty(row)

\* The call predicate(flat_file, row, &predicate_arguments) of the scan.
predicate(pred, row, target_key) ==
    IF pred = "empty" THEN flat_file_predicate_empty(row)
    ELSE flat_file_predicate_key_match(row, target_key)

(***************************************************************************)
(* flat_file_scan.                                                         *)
(***************************************************************************)
\* Number of whole rows fread delivers when asked for n rows at offset off.
fread(f, off, n) == Min(n, (Len(f) - off) \div row_size)

\* ftell after that fread: a partial trailing row is consumed too.
ftell_after(f, off, n) == Min(Len(f), off + n * row_size)

\* FoundLocation without the position in the batch.
FoundLocation_NoIndex(prev_offset, i) ==
    (prev_offset - start_of_data) \div row_size

\* The row index written back for a match at position i of the batch at prev_offset.
FoundLocation(prev_offset, i) ==
    (prev_offset - start_of_data) \div row_size + i

\* HitEndLocation giving a byte offset, and giving one row too far.
HitEndLocation_Bytes(eof_pos) ==
    eof_pos - start_of_data
HitEndLocation_Next(eof_pos) ==
    (eof_pos - start_of_data) \div row_size + 1

\* The location written back when the scan falls through.
HitEndLocation(eof_pos) ==
    (eof_pos - start_of_data) \div row_size

\* ClampedCount without the shrinking of the batch.
ClampedCount_NoShrink(nb, back) == nb

\* num_records_to_process of a backward batch whose offset back has gone
\* past the start of the data.
ClampedCount(nb, back) ==
    nb - (start_of_data - back) \div row_size

\* OutOfRange refusing a start at the end of the file.
OutOfRange_RejectsEof(cur_offset, eof_pos) ==
    (cur_offset >= eof_pos) \/ (cur_offset < start_of_data)

\* The check of the starting offset against the data of the file.
OutOfRange(cur_offset, eof_pos) ==
    (cur_offset > eof_pos) \/ (cur_offset < start_of_data)

\* BatchMatch taking the last row of the batch that matches.
BatchMatch_Highest(f, prev_offset, num_records_to_process, pred, target_key) ==
    LET hits == { i \in 0..(num_records_to_process - 1) :
                    predicate(pred, RowAt(f, prev_offset + i * row_size), target_key) }
    IN  IF hits = {} THEN num_records_to_process
        ELSE CHOOSE i \in hits : \A j \in hits : i >= j

\* The for loop over one batch of num_records_to_process rows read at
\* prev_offset: rows are tested in ascending order; the first match ends it.
\* Gives the position of the match (or num_records_to_process if none).
BatchMatch(f, prev_offset, num_records_to_process, pred, target_key) ==
    LET hits == { i \in 0..(num_records_to_process - 1) :
                    predicate(pred, RowAt(f, prev_offset + i * row_size), target_key) }
    IN  IF hits = {} THEN num_records_to_process
        ELSE CHOOSE i \in hits : \A j \in hits : i <= j

\* The row indices (as FoundLocation counts them) the predicate was called on
\* in a batch whose loop ran up to position last.
BatchExamined(prev_offset, last) ==
    [k \in 1..(last + 1) |-> FoundLocation(prev_offset, k - 1)]

RECURSIVE ScanLoop(_, _, _, _, _, _, _, _, _)
\* The while (cur_offset != end_offset) loop.  location and row are the
\* caller's output variables, examined the rows tested so far.
ScanLoop(f, nb, scan_forwards, pred, target_key, cur_offset, location, row, examined) ==
    LET eof_pos    == Len(f)
        end_offset == IF scan_forwards THEN eof_pos ELSE start_of_data
    IN
    IF cur_offset = end_offset
    THEN [err |-> "err_file_hit_eof",
          location |-> HitEndLocation(eof_pos),
          row |-> row, examined |-> examined]
    ELSE
    LET \* backward: the next read location, clamped at start_of_data
        back        == cur_offset - row_size * nb
        clamped     == back < start_of_data
        prev_offset == IF scan_forwards THEN cur_offset
                       ELSE IF clamped THEN start_of_data ELSE back
        wanted      == IF scan_forwards \/ ~clamped THEN nb
                       ELSE ClampedCount(nb, back)
        got         == fread(f, prev_offset, wanted)
        next_offset == IF scan_forwards THEN ftell_after(f, prev_offset, nb)
                       ELSE prev_offset
        incomplete  == IF scan_forwards THEN got = 0 ELSE got # wanted
    IN
    IF incomplete
    THEN [err |-> "err_file_incomplete_read", location |-> location,
          row |-> row, examined |-> examined]
    ELSE
    LET i    == BatchMatch(f, prev_offset, got, pred, target_key)
        last == IF i < got THEN i ELSE got - 1
        seen == examined \o BatchExamined(prev_offset, last)
        cur  == RowAt(f, prev_offset + last * row_size)
    IN
    IF i < got
    THEN [err |-> "err_ok", location |-> FoundLocation(prev_offset, i),
          row |-> cur, examined |-> seen]
    ELSE ScanLoop(f, nb, scan_forwards, pred, target_key, next_offset, location, cur, seen)

\* flat_file_scan(flat_file, start_location, &location, &row, scan_forwards,
\* predicate, target_key) on data file f with num_buffered = nb.  location and
\* row are the values the caller's variables hold before the call.
flat_file_scan(f, nb, start_location, location, row, scan_forwards, pred, target_key) ==
    LET eof_pos    == Len(f)
        cur_offset == IF NATURAL_START = start_location
                      THEN (IF scan_forwards THEN start_of_data ELSE eof_pos)
                      ELSE start_location * row_size
    IN
    IF OutOfRange(cur_offset, eof_pos)
    THEN [err |-> "err_file_read_error", location |-> location,
          row |-> row, examined |-> << >>]
    ELSE ScanLoop(f, nb, scan_forwards, pred, target_key, cur_offset, location, row, << >>)

(***************************************************************************)
(* flat_file_write_row.                                                    *)
(***************************************************************************)
\* A write that the file system carries out in full.
NoFault == [at |-> 0, stage |-> "none", part |-> 0]

\* The ways one call of flat_file_write_row can fail: the fseek, or one of the
\* three fwrite calls, which then has put only part bytes of its item in the file.
Stages ==
    { [stage |-> "seek", part |-> 0], [stage |-> "status", part |-> 0] }
    \cup { [stage |-> "key", part |-> p] : p \in 0..(key_size - 1) }
    \cup { [stage |-> "value", part |-> p] : p \in 0..(value_size - 1) }

\* flat_file_write_row writing zero bytes where the key or the value is NULL.
flat_file_write_row_ClearsRow(f, location, row, fl) ==
    [file |-> WriteAt(f, location * row_size,
                  <<row.row_status>>
                  \o (IF NULL # row.key THEN row.key ELSE [j \in 1..key_size |-> 0])
                  \o (IF NULL # row.value THEN row.value ELSE [j \in 1..value_size |-> 0])),
     err |-> "err_ok"]

\* flat_file_write_row(flat_file, location, row) on data file f; fl says which
\* step fails, if any.  Gives the file afterwards and the error returned.
flat_file_write_row(f, location, row, fl) ==
    LET off     == location * row_size
        f1      == WriteAt(f, off, <<row.row_status>>)
        key_off == off + status_size
        f2      == IF NULL # row.key THEN WriteAt(f1, key_off, row.key) ELSE f1
        val_off == IF NULL # row.key THEN key_off + key_size ELSE key_off
        f3      == IF NULL # row.value THEN WriteAt(f2, val_off, row.value) ELSE f2
    IN
    IF fl.stage = "seek"
    THEN [file |-> f, err |-> "err_file_bad_seek"]
    ELSE IF fl.stage = "status"
    THEN [file |-> f, err |-> "err_file_incomplete_write"]
    ELSE IF (NULL # row.key) /\ fl.stage = "key"
    THEN [file |-> WriteAt(f1, key_off, SubSeq(row.key, 1, fl.part)),
          err |-> "err_file_incomplete_write"]
    ELSE IF (NULL # row.value) /\ fl.stage = "value"
    THEN [file |-> WriteAt(f2, val_off, SubSeq(row.value, 1, fl.part)),
          err |-> "err_file_incomplete_write"]
    ELSE [file |-> f3, err |-> "err_ok"]

\* The fault, if any, that hits the n-th flat_file_write_row of an operation.
FaultOf(fl, n) == IF fl.at = n THEN fl ELSE NoFault

(***************************************************************************)
(* The dictionary operations.  Each gives the file afterwards and the      *)
(* ion_status_t returned (error, count).                                   *)
(***************************************************************************)
flat_file_insert(f, nb, key, value, fl) ==
    LET s == flat_file_scan(f, nb, NATURAL_START, NATURAL_START, NoRow, TRUE, "empty", NULL)
        w == flat_file_write_row(f, s.location,
                 [row_status |-> FLAT_FILE_STATUS_OCCUPIED, key |-> key, value |-> value],
                 FaultOf(fl, 1))
    IN
    IF ("err_ok" # s.err) /\ ("err_file_hit_eof" # s.err)
    THEN [file |-> f, error |-> s.err, count |-> ION_STATUS_INITIALIZE.count,
          location |-> s.location]
    ELSE IF "err_ok" # w.err
    THEN [file |-> w.file, error |-> w.err, count |-> ION_STATUS_INITIALIZE.count,
          location |-> s.location]
    ELSE [file |-> w.file, error |-> "err_ok", count |-> 1, location |-> s.location]

flat_file_get(f, nb, key) ==
    IF ~sorted_mode
    THEN LET s == flat_file_scan(f, nb, NATURAL_START, NATURAL_START, NoRow, TRUE,
                                 "key_match", key)
         IN  IF "err_ok" # s.err
             THEN [error |-> IF "err_file_hit_eof" = s.err THEN "err_item_not_found"
                             ELSE s.err,
                   count |-> ION_STATUS_INITIALIZE.count, value |-> NULL]
             ELSE [error |-> "err_ok", count |-> 1, value |-> s.row.value]
    ELSE [error |-> ION_STATUS_INITIALIZE.error, count |-> ION_STATUS_INITIALIZE.count,
          value |-> NULL]

\* NextLoc moving two rows on.
NextLoc_SkipOne(loc) == loc + 2

\* loc++ after a row has been deleted or updated.
NextLoc(loc) == loc + 1

RECURSIVE DeleteLoop(_, _, _, _, _, _)
\* while (err_ok == (err = flat_file_scan(flat_file, loc, &loc, ...))) of
\* flat_file_delete, entered with loc and status.count = count.
DeleteLoop(f, nb, key, loc, count, fl) ==
    LET s == flat_file_scan(f, nb, loc, loc, NoRow, TRUE, "key_match", key)
        w == flat_file_write_row(f, s.location,
                 [row_status |-> FLAT_FILE_STATUS_EMPTY, key |-> NULL, value |-> NULL],
                 FaultOf(fl, count + 1))
    IN  IF "err_ok" = s.err
        THEN DeleteLoop(w.file, nb, key, NextLoc(s.location), count + 1, fl)
        ELSE [file |-> f, err |-> s.err, count |-> count, scans |-> count + 1]

\* DeleteError without the item-not-found alias.
DeleteError_NoNotFound(err, count) ==
    IF err # "err_file_hit_eof" THEN err ELSE "err_ok"

\* status.error of flat_file_delete once its loop has ended with err.
DeleteError(err, count) ==
    IF (err = "err_file_hit_eof") /\ (count = 0) THEN "err_item_not_found"
    ELSE IF err # "err_file_hit_eof" THEN err
    ELSE "err_ok"

flat_file_delete(f, nb, key, fl) ==
    IF ~sorted_mode
    THEN LET r == DeleteLoop(f, nb, key, NATURAL_START, ION_STATUS_INITIALIZE.count, fl)
         IN  [file |-> r.file, error |-> DeleteError(r.err, r.count),
              count |-> r.count, scans |-> r.scans]
    ELSE [file |-> f, error |-> ION_STATUS_INITIALIZE.error,
          count |-> ION_STATUS_INITIALIZE.count, scans |-> 0]

RECURSIVE UpdateLoop(_, _, _, _, _, _, _)
\* The same loop in flat_file_update.
UpdateLoop(f, nb, key, value, loc, count, fl) ==
    LET s == flat_file_scan(f, nb, loc, loc, NoRow, TRUE, "key_match", key)
        w == flat_file_write_row(f, s.location,
                 [row_status |-> FLAT_FILE_STATUS_OCCUPIED, key |-> key, value |-> value],
                 FaultOf(fl, count + 1))
    IN  IF "err_ok" = s.err
        THEN UpdateLoop(w.file, nb, key, value, NextLoc(s.location), count + 1, fl)
        ELSE [file |-> f, err |-> s.err, count |-> count, scans |-> count + 1]

\* UpsertNeeded without the test of the count, and without the upsert.
UpsertNeeded_IgnoreCount(err, count) ==
    err = "err_file_hit_eof"
UpsertNeeded_Never(err, count) ==
    FALSE

\* "We had nothing to update. Do an upsert instead": the loop of
\* flat_file_update has ended with err after count rows.
UpsertNeeded(err, count) ==
    (err = "err_file_hit_eof") /\ (count = 0)

flat_file_update(f, nb, key, value, fl) ==
    IF ~sorted_mode
    THEN LET r == UpdateLoop(f, nb, key, value, NATURAL_START,
                             ION_STATUS_INITIALIZE.count, fl)
             i == flat_file_insert(r.file, nb, key, value, fl)
         IN  IF UpsertNeeded(r.err, r.count)
             THEN [file |-> i.file, error |-> i.error, count |-> i.count,
                   scans |-> r.scans, inserted |-> TRUE]
             ELSE [file |-> r.file,
                   error |-> IF r.err # "err_file_hit_eof" THEN r.err ELSE "err_ok",
                   count |-> r.count, scans |-> r.scans, inserted |-> FALSE]
    ELSE [file |-> f, error |-> ION_STATUS_INITIALIZE.error,
          count |-> ION_STATUS_INITIALIZE.count, scans |-> 0, inserted |-> FALSE]

(***************************************************************************)
(* State.                                                                  *)
(***************************************************************************)
VARIABLES
    data_file,      \* the bytes of the data file
    num_buffered,   \* flat_file->num_buffered
    call,           \* the last call made on the store and its arguments
    result,         \* what that call returned
    prev_file,      \* the bytes of the data file when that call was made
    last_written,   \* per key: the value of the latest successful insert or
                    \* update since the key was last deleted, else NULL
    deleted,        \* keys deleted with success and not inserted or updated since
    faults,         \* calls so far in which a write failed
    step            \* calls of the scripted scenario made so far

vars == <<data_file, num_buffered, call, result, prev_file, last_written, deleted,
          faults, step>>

NoCall == [name |-> "initialize", key |-> NULL, value |-> NULL,
           start |-> NATURAL_START, forwards |-> TRUE, pred |-> "empty",
           fault |-> NoFault]
NoResult == [error |-> "err_ok", count |-> 0, value |-> NULL,
             location |-> NATURAL_START, row |-> NoRow, examined |-> << >>,
             scans |-> 0, inserted |-> FALSE]

\* flat_file_initialize on a data file that did not exist.
Init ==
    /\ data_file = << >>
    /\ \E dictionary_size \in 0..MaxBuffered :
         num_buffered = IF dictionary_size <= 0 THEN 1 ELSE dictionary_size
    /\ call = NoCall
    /\ result = NoResult
    /\ prev_file = << >>
    /\ last_written = [k \in AllKeys \cup ScenarioKeys |-> NULL]
    /\ deleted = {}
    /\ faults = 0
    /\ step = 0

\* The model follows the store while its file holds at most MaxRows rows.
Bounded(f) == Len(f) <= start_of_data + MaxRows * row_size

\* A failing write is counted; fl.at names a write the call really makes.
Faulted(fl, writes) ==
    /\ fl # NoFault => fl.at <= writes
    /\ faults' = IF fl = NoFault THEN faults ELSE faults + 1

\* A direct call of flat_file_scan.
Scan(start_location, scan_forwards, pred, target_key) ==
    \E s \in { flat_file_scan(data_file, num_buffered, start_location,
                            NATURAL_START, NoRow, scan_forwards, pred, target_key) } :
        /\ call' = [NoCall EXCEPT !.name = "scan", !.key = target_key,
                      !.start = start_location, !.forwards = scan_forwards,
                      !.pred = pred]
        /\ result' = [NoResult EXCEPT !.error = s.err, !.location = s.location,
                        !.row = s.row, !.examined = s.examined]
        /\ prev_file' = data_file
        /\ UNCHANGED <<data_file, num_buffered, last_written, deleted, faults>>

Insert(key, value, fl) ==
    \E r \in { flat_file_insert(data_file, num_buffered, key, value, fl) } :
        /\ Bounded(r.file)
        /\ Faulted(fl, IF r.error \in {"err_file_incomplete_read", "err_file_read_error"}
                       THEN 0 ELSE 1)
        /\ data_file' = r.file
        /\ call' = [NoCall EXCEPT !.name = "insert", !.key = key, !.value = value,
                      !.fault = fl]
        /\ result' = [NoResult EXCEPT !.error = r.error, !.count = r.count,
                        !.location = r.location, !.inserted = TRUE]
        /\ prev_file' = data_file
        /\ last_written' = IF r.error = "err_ok"
                           THEN [last_written EXCEPT ![key] = value]
                           ELSE last_written
        /\ deleted' = IF r.error = "err_ok" THEN deleted \ {key} ELSE deleted
        /\ UNCHANGED num_buffered

Get(key) ==
    \E r \in { flat_file_get(data_file, num_buffered, key) } :
        /\ call' = [NoCall EXCEPT !.name = "get", !.key = key]
        /\ result' = [NoResult EXCEPT !.error = r.error, !.count = r.count,
                        !.value = r.value]
        /\ prev_file' = data_file
        /\ UNCHANGED <<data_file, num_buffered, last_written, deleted, faults>>

Delete(key, fl) ==
    \E r \in { flat_file_delete(data_file, num_buffered, key, fl) } :
        /\ Bounded(r.file)
        /\ Faulted(fl, r.count)
        /\ data_file' = r.file
        /\ call' = [NoCall EXCEPT !.name = "delete", !.key = key, !.fault = fl]
        /\ result' = [NoResult EXCEPT !.error = r.error, !.count = r.count,
                        !.scans = r.scans]
        /\ prev_file' = data_file
        /\ last_written' = IF r.error = "err_ok"
                           THEN [last_written EXCEPT ![key] = NULL]
                           ELSE last_written
        /\ deleted' = IF r.error = "err_ok" THEN deleted \cup {key} ELSE deleted
        /\ UNCHANGED num_buffered

Update(key, value, fl) ==
    \E r \in { flat_file_update(data_file, num_buffered, key, value, fl) } :
        /\ Bounded(r.file)
        /\ Faulted(fl, IF r.inserted THEN 1 ELSE r.count)
        /\ data_file' = r.file
        /\ call' = [NoCall EXCEPT !.name = "update", !.key = key, !.value = value,
                      !.fault = fl]
        /\ result' = [NoResult EXCEPT !.error = r.error, !.count = r.count,
                        !.scans = r.scans, !.inserted = r.inserted]
        /\ prev_file' = data_file
        /\ last_written' = IF r.error = "err_ok"
                           THEN [last_written EXCEPT ![key] = value]
                           ELSE last_written
        /\ deleted' = IF r.error = "err_ok" THEN deleted \ {key} ELSE deleted
        /\ UNCHANGED num_buffered

\* A direct call of flat_file_write_row with an OCCUPIED row, on a file system
\* that does not fail.  It is no insert or update of the dictionary, so the
\* record of what these have written stays as it is.
WriteRow(location, key, value) ==
    \E w \in { flat_file_write_row(data_file, location,
                    [row_status |-> FLAT_FILE_STATUS_OCCUPIED, key |-> key, value |-> value],
                    NoFault) } :
        /\ Bounded(w.file)
        /\ data_file' = w.file
        /\ call' = [NoCall EXCEPT !.name = "write_row", !.key = key, !.value = value,
                      !.start = location]
        /\ result' = [NoResult EXCEPT !.error = w.err, !.location = location]
        /\ prev_file' = data_file
        /\ UNCHANGED <<num_buffered, last_written, deleted, faults>>

\* The start locations a caller of flat_file_scan may pass: the flag, every
\* row index up to one past the row count, and a bad negative index.
Starts == (-2)..(MaxRows + 1)
Preds == {"empty", "key_match"}

\* The failing writes a call may meet: its at-th flat_file_write_row fails at
\* one of the stages.  An insert writes one row; a delete never writes a key
\* or a value.
WriteFaults == { [at |-> n, stage |-> st.stage, part |-> st.part] :
                    n \in 1..MaxRows, st \in Stages }
InsertFaults == { fl \in WriteFaults : fl.at = 1 }
StatusFaults == { fl \in WriteFaults : fl.stage \in {"seek", "status"} }

\* The four dictionary operations on a file system that never fails.
Next ==
    \/ \E e \in Entries : Insert(e[1], e[2], NoFault) /\ UNCHANGED step
    \/ \E k \in AllKeys : Get(k) /\ UNCHANGED step
    \/ \E k \in AllKeys : Delete(k, NoFault) /\ UNCHANGED step
    \/ \E e \in Entries : Update(e[1], e[2], NoFault) /\ UNCHANGED step

Spec == Init /\ [][Next]_vars

\* A direct scan leaves the store as it was, so whatever can follow it can
\* also follow the state it was made in: a behaviour is followed up to its
\* first direct call of flat_file_scan.
NoScanYet == call.name # "scan"

\* Inserts and deletes that build the file, and direct calls of flat_file_scan.
NextScan ==
    \/ \E e \in Entries : NoScanYet /\ Insert(e[1], e[2], NoFault) /\ UNCHANGED step
    \/ \E k \in Keys : NoScanYet /\ Delete(k, NoFault) /\ UNCHANGED step
    \/ \E start \in Starts, fwd \in BOOLEAN, pred \in Preds, k \in AllKeys :
          /\ NoScanYet
          /\ start <= RowCount(data_file) + 1
          /\ pred = "empty" => k = AbsentKey
          /\ Scan(start, fwd, pred, k)
          /\ UNCHANGED step

SpecScan == Init /\ [][NextScan]_vars

\* The store is one the dictionary operations have built when
\* flat_file_write_row is called on it directly: a behaviour is followed up
\* to its first such call.
NoWriteYet == call.name # "write_row"

\* Inserts and deletes that build the file, and direct calls of
\* flat_file_write_row on any row index from 0 to the row count.
NextRow ==
    \/ \E e \in Entries : NoWriteYet /\ Insert(e[1], e[2], NoFault) /\ UNCHANGED step
    \/ \E k \in Keys : NoWriteYet /\ Delete(k, NoFault) /\ UNCHANGED step
    \/ \E location \in 0..MaxRows, e \in Entries :
          /\ NoWriteYet
          /\ location <= RowCount(data_file)
          /\ WriteRow(location, e[1], e[2])
          /\ UNCHANGED step

SpecRow == Init /\ [][NextRow]_vars

\* The keys used on the file system whose writes may fail.
IOKeys == { <<1, 1>> }

\* No fault, or while the behaviour may still meet one, a fault of S.
MayFail(S) == {NoFault} \cup (IF faults < MaxFaults THEN S ELSE {})

\* The dictionary operations on a file system whose writes may fail.
NextIO ==
    \/ \E k \in IOKeys, v \in Values, fl \in MayFail(InsertFaults) :
          Insert(k, v, fl) /\ UNCHANGED step
    \/ \E k \in IOKeys : Get(k) /\ UNCHANGED step
    \/ \E k \in IOKeys, fl \in MayFail(StatusFaults) :
          Delete(k, fl) /\ UNCHANGED step
    \/ \E k \in IOKeys, v \in Values, fl \in MayFail(WriteFaults) :
          Update(k, v, fl) /\ UNCHANGED step

SpecIO == Init /\ [][NextIO]_vars

\* The calls of the scripted scenario, in their order.
Script ==
    << [name |-> "insert", key |-> ScenarioKey(1), value |-> ScenarioValue(10)],
       [name |-> "insert", key |-> ScenarioKey(2), value |-> ScenarioValue(20)],
       [name |-> "delete", key |-> ScenarioKey(1), value |-> NULL],
       [name |-> "insert", key |-> ScenarioKey(3), value |-> ScenarioValue(30)],
       [name |-> "get",    key |-> ScenarioKey(2), value |-> NULL],
       [name |-> "get",    key |-> ScenarioKey(1), value |-> NULL],
       [name |-> "update", key |-> ScenarioKey(2), value |-> ScenarioValue(99)],
       [name |-> "get",    key |-> ScenarioKey(2), value |-> NULL],
       [name |-> "update", key |-> ScenarioKey(4), value |-> ScenarioValue(40)],
       [name |-> "get",    key |-> ScenarioKey(4), value |-> NULL] >>

\* The next call of the script is made.
ScenarioStep ==
    /\ step < Len(Script)
    /\ step' = step + 1
    /\ \E c \in { Script[step + 1] } :
          \/ c.name = "insert" /\ Insert(c.key, c.value, NoFault)
          \/ c.name = "get" /\ Get(c.key)
          \/ c.name = "delete" /\ Delete(c.key, NoFault)
          \/ c.name = "update" /\ Update(c.key, c.value, NoFault)

\* The script on a fresh store, with a Get of any of its keys looked up
\* between any two of its calls.
NextScenario ==
    \/ ScenarioStep
    \/ \E k \in ScenarioKeys : Get(k) /\ UNCHANGED step

SpecScenario == Init /\ [][NextScenario]_vars

(***************************************************************************)
(* What the properties below speak of.                                     *)
(***************************************************************************)
\* Row i of file f (0-based), and the indices of the rows of f.
Row(f, i) ==
    LET base == start_of_data + i * row_size
    IN  [row_status |-> f[base + 1],
         key        |-> [j \in 1..key_size |-> f[base + 1 + j]],
         value      |-> [j \in 1..value_size |-> f[base + 1 + key_size + j]]]
Rows(f) == 0..(RowCount(f) - 1)

\* The rows of f that are OCCUPIED with key k, those that are EMPTY, and the
\* tombstones that still hold the bytes of key k.
OccupiedWith(f, k) ==
    { i \in Rows(f) : Row(f, i).row_status = FLAT_FILE_STATUS_OCCUPIED /\ Row(f, i).key = k }
EmptyRows(f) ==
    { i \in Rows(f) : Row(f, i).row_status = FLAT_FILE_STATUS_EMPTY }
Tombstones(f, k) ==
    { i \in EmptyRows(f) : Row(f, i).key = k }

Lowest(S) == CHOOSE i \in S : \A j \in S : i <= j
Highest(S) == CHOOSE i \in S : \A j \in S : i >= j

\* The file is made of whole rows.
WholeRows(f) == Len(f) = start_of_data + RowCount(f) * row_size

\* The last call returned success with the given count.
Succeeded(n) == result.error = "err_ok" /\ result.count = n

(***************************************************************************)
(* C1.  Get of a key that has been inserted and not deleted since.         *)
(***************************************************************************)
\* C1 as stated: Get(K) of a key K inserted and not deleted since returns
\* success, count 1 and the value most recently written for K by an Insert or
\* an Update, also when several OCCUPIED rows carry K.
C1_GetReturnsLastWritten ==
    (call.name = "get" /\ last_written[call.key] # NULL)
        => (Succeeded(1) /\ result.value = last_written[call.key])

\* C1 as amended: Get(K) of such a key returns success, count 1 and the value
\* of the lowest-index OCCUPIED row carrying K; that value is the one most
\* recently written for K whenever all OCCUPIED rows carrying K hold the same
\* value (in particular when K occupies a single row).
C1_GetReturnsLowestRow ==
    (call.name = "get" /\ last_written[call.key] # NULL)
        => LET occ == OccupiedWith(data_file, call.key)
           IN  /\ occ # {}
               /\ Succeeded(1)
               /\ result.value = Row(data_file, Lowest(occ)).value
               /\ (\A i, j \in occ : Row(data_file, i).value = Row(data_file, j).value)
                     => result.value = last_written[call.key]

\* A Get of a key held by two or more OCCUPIED rows, behind a row of another
\* key, that returns the last value written.
C1_Witness ==
    /\ call.name = "get"
    /\ last_written[call.key] # NULL
    /\ Cardinality(OccupiedWith(data_file, call.key)) >= 2
    /\ 0 \notin OccupiedWith(data_file, call.key)
    /\ result.value = last_written[call.key]

(***************************************************************************)
(* C2.  Insert takes the lowest EMPTY row, else appends.                   *)
(***************************************************************************)
\* The row an insert into file f must use.
InsertTarget(f) ==
    IF EmptyRows(f) # {} THEN Lowest(EmptyRows(f)) ELSE RowCount(f)

\* C2: Insert(K, V) returns success with count 1 and writes the OCCUPIED row
\* (K, V) at the lowest-index EMPTY row if there is one, else at index = row
\* count, growing the row count by exactly one; every other row is unchanged.
C2_InsertLowestEmptyOrAppend ==
    (call.name = "insert")
        => LET t == InsertTarget(prev_file)
           IN  /\ Succeeded(1)
               /\ WholeRows(data_file)
               /\ RowCount(data_file) =
                    IF EmptyRows(prev_file) # {} THEN RowCount(prev_file)
                    ELSE RowCount(prev_file) + 1
               /\ Row(data_file, t) = [row_status |-> FLAT_FILE_STATUS_OCCUPIED,
                                       key |-> call.key, value |-> call.value]
               /\ \A i \in Rows(prev_file) \ {t} : Row(data_file, i) = Row(prev_file, i)

\* An insert that reuses an EMPTY row which is neither the first nor the last
\* row of the file, found in the second position of a batch of two.
C2_Witness ==
    /\ call.name = "insert"
    /\ num_buffered = 2
    /\ RowCount(prev_file) = 3
    /\ InsertTarget(prev_file) = 1
    /\ Row(data_file, 1).row_status = FLAT_FILE_STATUS_OCCUPIED

(***************************************************************************)
(* C3.  Delete removes every row of a duplicated key.                      *)
(***************************************************************************)
\* C3: if N >= 1 OCCUPIED rows carry K, Delete(K) returns success with count N,
\* all N rows are EMPTY afterwards and no OCCUPIED row carries K.
C3_DeleteRemovesAll ==
    (call.name = "delete" /\ OccupiedWith(prev_file, call.key) # {})
        => /\ Succeeded(Cardinality(OccupiedWith(prev_file, call.key)))
           /\ \A i \in OccupiedWith(prev_file, call.key) :
                 Row(data_file, i).row_status = FLAT_FILE_STATUS_EMPTY
           /\ OccupiedWith(data_file, call.key) = {}

\* A delete of a key held by the first and the last of three rows, which two
\* batches of two rows cover.
C3_Witness ==
    /\ call.name = "delete"
    /\ num_buffered = 2
    /\ OccupiedWith(prev_file, call.key) = {0, 2}
    /\ RowCount(prev_file) = 3
    /\ result.count = 2

(***************************************************************************)
(* C4.  Update rewrites every row of a duplicated key.                     *)
(***************************************************************************)
\* C4: if N >= 1 OCCUPIED rows carry K, Update(K, V) returns success with
\* count N, each of those rows is OCCUPIED with key K and value V afterwards,
\* the row count is unchanged, no insert is performed, and every row not
\* carrying K is unchanged.
C4_UpdateRewritesAll ==
    (call.name = "update" /\ OccupiedWith(prev_file, call.key) # {})
        => LET occ == OccupiedWith(prev_file, call.key)
           IN  /\ Succeeded(Cardinality(occ))
               /\ ~result.inserted
               /\ Len(data_file) = Len(prev_file)
               /\ \A i \in occ :
                     Row(data_file, i) = [row_status |-> FLAT_FILE_STATUS_OCCUPIED,
                                          key |-> call.key, value |-> call.value]
               /\ \A i \in Rows(prev_file) \ occ : Row(data_file, i) = Row(prev_file, i)

\* An update of a key held by two adjacent rows in different batches, to a
\* value neither of them held, next to a row of another key.
C4_Witness ==
    /\ call.name = "update"
    /\ num_buffered = 2
    /\ OccupiedWith(prev_file, call.key) = {1, 2}
    /\ \A i \in {1, 2} : Row(prev_file, i).value # call.value
    /\ Row(prev_file, 0).row_status = FLAT_FILE_STATUS_OCCUPIED
    /\ result.count = 2

(***************************************************************************)
(* C5.  Update of an absent key is an insert.                              *)
(***************************************************************************)
\* C5: when no OCCUPIED row carries K, Update(K, V) returns the status and
\* leaves the file contents that Insert(K, V) gives from the same state, and
\* a Get(K) that follows returns V.
C5_UpsertLaw ==
    (call.name = "update" /\ OccupiedWith(prev_file, call.key) = {})
        => LET i == flat_file_insert(prev_file, num_buffered, call.key, call.value, NoFault)
               g == flat_file_get(data_file, num_buffered, call.key)
           IN  /\ result.error = i.error
               /\ result.count = i.count
               /\ data_file = i.file
               /\ g.error = "err_ok" /\ g.count = 1 /\ g.value = call.value

\* An update of a key that only a tombstone holds, with a lower EMPTY row
\* to take.
C5_Witness ==
    /\ call.name = "update"
    /\ OccupiedWith(prev_file, call.key) = {}
    /\ Tombstones(prev_file, call.key) = {1}
    /\ EmptyRows(prev_file) = {0, 1}
    /\ OccupiedWith(data_file, call.key) = {0}

(***************************************************************************)
(* C6.  Delete of an absent key.                                           *)
(***************************************************************************)
\* C6: Delete(K) when no OCCUPIED row carries K (an empty file, or K only in
\* tombstones) returns item-not-found with count 0 and leaves the file as is.
C6_DeleteAbsent ==
    (call.name = "delete" /\ OccupiedWith(prev_file, call.key) = {})
        => /\ result.error = "err_item_not_found"
           /\ result.count = 0
           /\ data_file = prev_file

\* A delete of a key that two tombstones still hold, in a file with an
\* OCCUPIED row of another key.
C6_Witness ==
    /\ call.name = "delete"
    /\ OccupiedWith(prev_file, call.key) = {}
    /\ Cardinality(Tombstones(prev_file, call.key)) = 2
    /\ EmptyRows(prev_file) # Rows(prev_file)
    /\ result.error = "err_item_not_found"

(***************************************************************************)
(* C7.  Get after a successful delete.                                     *)
(***************************************************************************)
\* C7: after a Delete(K) that returned success, and until an Insert(K, .) or
\* Update(K, .), every Get(K) returns item-not-found with count 0.
C7_GetAfterDelete ==
    (call.name = "get" /\ call.key \in deleted)
        => (result.error = "err_item_not_found" /\ result.count = 0)

\* A Get of a deleted key whose bytes a tombstone still holds, after another
\* key has been written behind it.
C7_Witness ==
    /\ call.name = "get"
    /\ call.key \in deleted
    /\ Tombstones(data_file, call.key) = {0}
    /\ \E k \in Keys \ {call.key} : OccupiedWith(data_file, k) = {1, 2}
    /\ result.error = "err_item_not_found"

(***************************************************************************)
(* C8.  Backward scan for a key.                                           *)
(***************************************************************************)
\* C8: a backward scan from the natural start with the exact-key predicate
\* for K, when at least one OCCUPIED row carries K, returns found with the
\* index of the highest-index matching row.
C8_BackwardFindsHighest ==
    (/\ call.name = "scan"
     /\ ~call.forwards
     /\ call.start = NATURAL_START
     /\ call.pred = "key_match"
     /\ OccupiedWith(data_file, call.key) # {})
        => /\ result.error = "err_ok"
           /\ result.location = Highest(OccupiedWith(data_file, call.key))

(***************************************************************************)
(* C9.  Forward scan for a key from a start index.                         *)
(***************************************************************************)
\* The first row a scan from start location s looks at.
FirstRow(s) == IF s = NATURAL_START THEN 0 ELSE s

\* C9: for every valid start s (natural, or 0 <= s <= row count), a forward
\* scan with the exact-key predicate for K returns found with the lowest
\* index i >= s whose row is OCCUPIED with key K and with that row's key and
\* value bytes, whenever there is such a row; the predicate has been called on
\* the rows s .. i, each once and in this order, and on no other row.
C9_ForwardFindsLowest ==
    (/\ call.name = "scan"
     /\ call.forwards
     /\ call.pred = "key_match"
     /\ call.start = NATURAL_START \/ (0 <= call.start /\ call.start <= RowCount(data_file))
     /\ \E i \in OccupiedWith(data_file, call.key) : i >= FirstRow(call.start))
        => LET s == FirstRow(call.start)
               i == Lowest({ j \in OccupiedWith(data_file, call.key) : j >= s })
           IN  /\ result.error = "err_ok"
               /\ result.location = i
               /\ result.row = Row(data_file, i)
               /\ result.row.key = call.key
               /\ result.examined = [n \in 1..(i - s + 1) |-> s + n - 1]

\* A forward scan from row 1 with batches of two rows that passes over a
\* matching row below its start and finds the key in the last of three rows,
\* a row of the second batch.
C9_Witness ==
    /\ call.name = "scan"
    /\ call.forwards
    /\ call.pred = "key_match"
    /\ call.start = 1
    /\ num_buffered = 2
    /\ OccupiedWith(data_file, call.key) = {0, 2}
    /\ result.error = "err_ok"
    /\ result.location = 2

(***************************************************************************)
(* C10.  Delete and Update when a row write fails.                         *)
(***************************************************************************)
\* The error flat_file_write_row returns for a failure at the given stage.
WriteError(stage) ==
    IF stage = "seek" THEN "err_file_bad_seek" ELSE "err_file_incomplete_write"

\* C10: if a row write fails while Delete(K) or Update(K, V) is processing a
\* matched row, the operation returns that write error, and the count returned
\* is the number of rows mutated before the failure.
C10_WriteErrorPropagates ==
    (/\ call.name \in {"delete", "update"}
     /\ ~result.inserted
     /\ call.fault # NoFault)
        => /\ result.error = WriteError(call.fault.stage)
           /\ result.count = call.fault.at - 1

(***************************************************************************)
(* C11.  A scan that finds nothing.                                        *)
(***************************************************************************)
\* Row i of file f satisfies the predicate pred (with target key k).
Satisfies(f, i, pred, k) ==
    IF pred = "empty" THEN f[start_of_data + i * row_size + 1] = FLAT_FILE_STATUS_EMPTY
    ELSE i \in OccupiedWith(f, k)

\* The last call was a scan from the natural start or from a row index
\* between 0 and the row count.
ValidStart ==
    \/ call.start = NATURAL_START
    \/ (0 <= call.start /\ call.start <= RowCount(data_file))

\* The rows a scan of file f from start location s has to look at.
ScanRange(f, s, forwards) ==
    IF forwards THEN FirstRow(s)..(RowCount(f) - 1)
    ELSE 0..((IF s = NATURAL_START THEN RowCount(f) ELSE s) - 1)

\* No row the last scan had to look at satisfies its predicate.
NothingToFind ==
    \A i \in ScanRange(data_file, call.start, call.forwards) :
        ~Satisfies(data_file, i, call.pred, call.key)

\* C11: for either direction, either predicate and every valid start, a scan
\* in which no examined row satisfies the predicate returns hit-end and sets
\* the output index to the row count of the file; a forward scan started at
\* index = row count examines no row.
C11_NoMatchHitsEnd ==
    (call.name = "scan" /\ ValidStart /\ NothingToFind)
        => /\ result.error = "err_file_hit_eof"
           /\ result.location = Len(data_file) \div row_size
           /\ (call.forwards /\ call.start = RowCount(data_file))
                 => result.examined = << >>

\* A backward scan from row 2 of three rows, in batches of two, that finds
\* nothing below its start although the row at its start holds the key.
C11_Witness ==
    /\ call.name = "scan"
    /\ ~call.forwards
    /\ call.pred = "key_match"
    /\ call.start = 2
    /\ num_buffered = 2
    /\ RowCount(data_file) = 3
    /\ 2 \in OccupiedWith(data_file, call.key)
    /\ result.error = "err_file_hit_eof"
    /\ result.location = 3

(***************************************************************************)
(* C12.  A scan from a start outside the data.                             *)
(***************************************************************************)
\* C12: a scan from an explicit start index above the row count, or negative
\* and not the -1 flag, fails with an error that is neither found nor hit-end,
\* calls the predicate on no row and leaves the caller's location as it was;
\* a start index equal to the row count is accepted.
C12_StartOutOfRange ==
    /\ (/\ call.name = "scan"
        /\ call.start # NATURAL_START
        /\ (call.start > RowCount(data_file) \/ call.start < 0))
          => /\ result.error \notin {"err_ok", "err_file_hit_eof"}
             /\ result.examined = << >>
             /\ result.location = NoResult.location
    /\ (call.name = "scan" /\ call.start = RowCount(data_file))
          => result.error \in {"err_ok", "err_file_hit_eof"}

\* A forward key scan from one past the row count of a file whose rows hold
\* the key, which is refused.
C12_Witness ==
    /\ call.name = "scan"
    /\ call.forwards
    /\ call.pred = "key_match"
    /\ RowCount(data_file) >= 2
    /\ call.start = RowCount(data_file) + 1
    /\ OccupiedWith(data_file, call.key) # {}
    /\ result.error = "err_file_read_error"

(***************************************************************************)
(* C17.  A backward scan that finds nothing.                               *)
(***************************************************************************)
\* The index one past the first row a backward scan from s looks at.
BackwardStart(f, s) == IF s = NATURAL_START THEN RowCount(f) ELSE s

\* C17: for every row count, every num_buffered (dividing the row count or
\* not, or larger than it) and every valid start s, a backward scan whose
\* predicate never matches calls the predicate on each row of [0, s) exactly
\* once and on no other row, never below the start of the data, and ends
\* with hit-end.
C17_BackwardCoversOnce ==
    (call.name = "scan" /\ ~call.forwards /\ ValidStart /\ NothingToFind)
        => LET s == BackwardStart(data_file, call.start)
           IN  /\ result.error = "err_file_hit_eof"
               /\ Len(result.examined) = s
               /\ { result.examined[j] : j \in 1..Len(result.examined) } = 0..(s - 1)

\* A backward scan from the natural start over three rows in batches of two:
\* rows 1 and 2 first, then the lowest batch shrunk to row 0.
C17_Witness ==
    /\ call.name = "scan"
    /\ ~call.forwards
    /\ call.start = NATURAL_START
    /\ num_buffered = 2
    /\ RowCount(data_file) = 3
    /\ result.error = "err_file_hit_eof"
    /\ result.examined = <<1, 2, 0>>

(***************************************************************************)
(* C13.  The file is made of whole rows.                                   *)
(***************************************************************************)
\* C13: in every reachable state, also after calls that returned an I/O error
\* such as an incomplete write part-way through a row, the file length
\* measured from start_of_data is an integer multiple of row_size.
C13_LengthMultipleOfRowSize ==
    (Len(data_file) - start_of_data) % row_size = 0

(***************************************************************************)
(* C14.  A row written is the row a key scan reads.                        *)
(***************************************************************************)
\* The forward scan from the natural start for the key of the last call.
ScanForKey ==
    flat_file_scan(data_file, num_buffered, NATURAL_START, NATURAL_START, NoRow,
                   TRUE, "key_match", call.key)

\* C14 as stated: for every store state, every row index i from 0 to the row
\* count, every key K and value V, a successful write_row(i, OCCUPIED, K, V)
\* followed by a forward scan from the natural start with the exact-key
\* predicate for K returns found with key bytes K and value bytes V.
C14_RoundTrip ==
    (call.name = "write_row" /\ result.error = "err_ok")
        => /\ ScanForKey.err = "err_ok"
           /\ ScanForKey.row.key = call.key
           /\ ScanForKey.row.value = call.value

\* C14 as amended: that scan returns found with key bytes K and the row of the
\* lowest-index OCCUPIED row carrying K, at an index <= i; it returns index i
\* and the value bytes V whenever no OCCUPIED row below i carries K.
C14_RoundTripLowest ==
    (call.name = "write_row" /\ result.error = "err_ok")
        => LET occ == OccupiedWith(data_file, call.key)
           IN  /\ call.start \in occ
               /\ Row(data_file, call.start).value = call.value
               /\ ScanForKey.err = "err_ok"
               /\ ScanForKey.row.key = call.key
               /\ ScanForKey.location = Lowest(occ)
               /\ ScanForKey.row = Row(data_file, Lowest(occ))
               /\ (\A j \in occ : j >= call.start)
                     => (ScanForKey.location = call.start
                         /\ ScanForKey.row.value = call.value)

\* A write over the middle one of three rows, which held another key and
\* another value, behind a row of another key; the scan reads it back from the
\* second place of its first batch of two.
C14_Witness ==
    /\ call.name = "write_row"
    /\ result.error = "err_ok"
    /\ call.start = 1
    /\ num_buffered = 2
    /\ RowCount(prev_file) = 3
    /\ Row(prev_file, 1).key # call.key
    /\ Row(prev_file, 1).value # call.value
    /\ OccupiedWith(data_file, call.key) = {1}
    /\ Row(data_file, 0).row_status = FLAT_FILE_STATUS_OCCUPIED
    /\ ScanForKey.location = 1
    /\ ScanForKey.row.value = call.value

(***************************************************************************)
(* C15.  The row count never decreases.                                    *)
(***************************************************************************)
\* The last call was an Insert, or an Update that fell back to an insert.
Inserting ==
    call.name = "insert" \/ (call.name = "update" /\ result.inserted)

\* C15: the row count never decreases: Get, Delete and Update with at least
\* one match leave it unchanged; Insert, and Update falling back to Insert,
\* leave it unchanged when an EMPTY row exists and increase it by exactly one
\* otherwise; a row tombstoned by Delete stays addressable at the same index,
\* and an EMPTY row stays as it is until an insert reuses it.
C15_RowCountNeverDecreases ==
    /\ RowCount(data_file) >= RowCount(prev_file)
    /\ ~Inserting => RowCount(data_file) = RowCount(prev_file)
    /\ Inserting => RowCount(data_file) =
                      IF EmptyRows(prev_file) # {} THEN RowCount(prev_file)
                      ELSE RowCount(prev_file) + 1
    /\ call.name = "delete" =>
          \A i \in OccupiedWith(prev_file, call.key) : i \in EmptyRows(data_file)
    /\ \A i \in EmptyRows(prev_file) :
          /\ i \in Rows(data_file)
          /\ \/ Row(data_file, i) = Row(prev_file, i)
             \/ Inserting /\ i = InsertTarget(prev_file)

\* An Update of an absent key on a file of two OCCUPIED rows, which appends a
\* third row.
C15_Witness ==
    /\ call.name = "update"
    /\ result.inserted
    /\ RowCount(prev_file) = 2
    /\ EmptyRows(prev_file) = {}
    /\ RowCount(data_file) = 3
    /\ Row(data_file, 2).key = call.key

(***************************************************************************)
(* C16.  The scripted scenario.                                            *)
(***************************************************************************)
\* A row of the scenario: status, key n, value v.
ScenarioRow(status, n, v) == <<status>> \o ScenarioKey(n) \o ScenarioValue(v)

\* The bytes of the file after each call of the script.
ScenarioFile ==
    << ScenarioRow(1, 1, 10),
       ScenarioRow(1, 1, 10) \o ScenarioRow(1, 2, 20),
       ScenarioRow(0, 1, 10) \o ScenarioRow(1, 2, 20),
       ScenarioRow(1, 3, 30) \o ScenarioRow(1, 2, 20),
       ScenarioRow(1, 3, 30) \o ScenarioRow(1, 2, 20),
       ScenarioRow(1, 3, 30) \o ScenarioRow(1, 2, 20),
       ScenarioRow(1, 3, 30) \o ScenarioRow(1, 2, 99),
       ScenarioRow(1, 3, 30) \o ScenarioRow(1, 2, 99),
       ScenarioRow(1, 3, 30) \o ScenarioRow(1, 2, 99) \o ScenarioRow(1, 4, 40),
       ScenarioRow(1, 3, 30) \o ScenarioRow(1, 2, 99) \o ScenarioRow(1, 4, 40) >>

\* The last call is the step-th call of the script (or a Get equal to it).
AtScriptCall(n) ==
    /\ step = n
    /\ call.name = Script[n].name
    /\ call.key = Script[n].key

\* C16: on a fresh store with a buffer of two rows, Insert(1,10) writes row 0;
\* Insert(2,20) writes row 1; Delete(1) returns count 1 and row 0 becomes
\* EMPTY; Insert(3,30) writes row 0, not row 2; Get(2) returns 20; Get(1)
\* returns not-found; Update(2,99) returns count 1 and Get(2) then returns 99;
\* Update(4,40) writes row 2 with count 1 and Get(4) returns 40.
C16_Scenario ==
    /\ step >= 1 => data_file = ScenarioFile[step]
    /\ AtScriptCall(1) => (Succeeded(1) /\ result.location = 0)
    /\ AtScriptCall(2) => (Succeeded(1) /\ result.location = 1)
    /\ AtScriptCall(3) => Succeeded(1)
    /\ AtScriptCall(4) => (Succeeded(1) /\ result.location = 0)
    /\ AtScriptCall(5) => (Succeeded(1) /\ result.value = ScenarioValue(20))
    /\ AtScriptCall(6) => (result.error = "err_item_not_found" /\ result.count = 0)
    /\ AtScriptCall(7) => (Succeeded(1) /\ ~result.inserted)
    /\ AtScriptCall(8) => (Succeeded(1) /\ result.value = ScenarioValue(99))
    /\ AtScriptCall(9) => (Succeeded(1) /\ result.inserted)
    /\ AtScriptCall(10) => (Succeeded(1) /\ result.value = ScenarioValue(40))

\* The script has run to its last call, the Get of key 4, on a store with a
\* buffer of two rows.
C16_Witness ==
    /\ AtScriptCall(10)
    /\ num_buffered = 2
    /\ RowCount(data_file) = 3
    /\ result.value = ScenarioValue(40)

(***************************************************************************)
(* C18.  The loops of Delete and Update end.                               *)
(***************************************************************************)
\* C18: Delete(K) and Update(K, V) end after at most (row count + 1) scans:
\* every scan but the last matches a row not matched before, so the rows
\* matched are the rows that were OCCUPIED with K, each once, also in an
\* Update, which leaves them OCCUPIED with K; the row count does not grow
\* while the loop runs.
C18_LoopsEnd ==
    (call.name \in {"delete", "update"})
        => /\ result.scans = result.count + 1 \/ (result.inserted /\ result.scans = 1)
           /\ result.scans <= RowCount(prev_file) + 1
           /\ ~result.inserted =>
                 /\ result.count = Cardinality(OccupiedWith(prev_file, call.key))
                 /\ RowCount(data_file) = RowCount(prev_file)

\* An Update of a key that all three rows of the file hold, with a buffer of
\* two rows: four scans, one more than the row count.
C18_Witness ==
    /\ call.name = "update"
    /\ num_buffered = 2
    /\ OccupiedWith(prev_file, call.key) = {0, 1, 2}
    /\ OccupiedWith(data_file, call.key) = {0, 1, 2}
    /\ result.count = 3
    /\ result.scans = 4

(***************************************************************************)
(* C19.  Batching cannot be observed through the dictionary operations.    *)
(***************************************************************************)
\* What the last call returns and leaves in the file when it is made on the
\* same file by a store whose buffer holds n rows.
CallWith(n) ==
    IF call.name = "insert"
    THEN LET r == flat_file_insert(prev_file, n, call.key, call.value, NoFault)
         IN  [file |-> r.file, error |-> r.error, count |-> r.count, value |-> NULL]
    ELSE IF call.name = "get"
    THEN LET r == flat_file_get(prev_file, n, call.key)
         IN  [file |-> prev_file, error |-> r.error, count |-> r.count, value |-> r.value]
    ELSE IF call.name = "delete"
    THEN LET r == flat_file_delete(prev_file, n, call.key, NoFault)
         IN  [file |-> r.file, error |-> r.error, count |-> r.count, value |-> NULL]
    ELSE LET r == flat_file_update(prev_file, n, call.key, call.value, NoFault)
         IN  [file |-> r.file, error |-> r.error, count |-> r.count, value |-> NULL]

\* C19: two stores that differ only in num_buffered (1 against any n >= 1),
\* driven by the same Insert/Get/Update/Delete calls with no I/O failure,
\* return the same error code and count and the same Get values for every
\* call and have identical file contents after every call: on equal files,
\* each call gives with every buffer size what it gives with a buffer of one
\* row.
C19_BatchingUnobservable ==
    (call.name \in {"insert", "get", "delete", "update"})
        => LET one == CallWith(1)
           IN  /\ \A n \in 2..MaxBuffered : CallWith(n) = one
               /\ one.file = data_file
               /\ one.error = result.error
               /\ one.count = result.count
               /\ one.value = result.value

\* A Delete by a store with a buffer of two rows of a key held by both rows
\* of the first batch and by the short last batch of a file of three rows.
C19_Witness ==
    /\ call.name = "delete"
    /\ num_buffered = 2
    /\ OccupiedWith(prev_file, call.key) = {0, 1, 2}
    /\ EmptyRows(data_file) = {0, 1, 2}
    /\ CallWith(1).file = data_file
    /\ result.count = 3

(***************************************************************************)
(* C20.  Delete writes status bytes only.                                  *)
(***************************************************************************)
\* The offset (from 1) of the status byte of row i.
StatusByte(i) == start_of_data + i * row_size + 1

\* What Get(k) returns on the file as it is now.
GetNow(k) == flat_file_get(data_file, num_buffered, k)

\* C20: Delete(K) changes nothing but status bytes: the only bytes that differ
\* afterwards are the status bytes of the rows that were OCCUPIED with K,
\* which go from OCCUPIED to EMPTY, so these rows keep their key and value
\* bytes and every other row is unchanged; an Insert that reuses an EMPTY row
\* overwrites its status, key and value completely, and a Get then returns
\* bytes of OCCUPIED rows only, none that the reused row held before.
C20_DeleteWritesStatusOnly ==
    /\ (call.name = "delete")
          => /\ Len(data_file) = Len(prev_file)
             /\ \A i \in OccupiedWith(prev_file, call.key) :
                   /\ data_file[StatusByte(i)] = FLAT_FILE_STATUS_EMPTY
                   /\ Row(data_file, i).key = Row(prev_file, i).key
                   /\ Row(data_file, i).value = Row(prev_file, i).value
             /\ \A p \in 1..Len(prev_file) :
                   data_file[p] # prev_file[p]
                      => \E i \in OccupiedWith(prev_file, call.key) : p = StatusByte(i)
    /\ (call.name = "insert" /\ EmptyRows(prev_file) # {})
          => LET t == InsertTarget(prev_file)
             IN  /\ SubSeq(data_file, StatusByte(t), StatusByte(t) + row_size - 1)
                      = <<FLAT_FILE_STATUS_OCCUPIED>> \o call.key \o call.value
                 /\ \A k \in AllKeys :
                       IF OccupiedWith(data_file, k) = {}
                       THEN GetNow(k).error = "err_item_not_found"
                       ELSE /\ GetNow(k).error = "err_ok"
                            /\ GetNow(k).value =
                                 Row(data_file, Lowest(OccupiedWith(data_file, k))).value

\* An Insert that reuses row 1, the tombstone of a deleted key that held
\* another key and another value; the deleted key is no longer found.
C20_Witness ==
    /\ call.name = "insert"
    /\ InsertTarget(prev_file) = 1
    /\ 1 \in EmptyRows(prev_file)
    /\ Row(prev_file, 1).key \in deleted
    /\ Row(prev_file, 1).key # call.key
    /\ Row(prev_file, 1).value # call.value
    /\ Row(data_file, 1).key = call.key
    /\ GetNow(Row(prev_file, 1).key).error = "err_item_not_found"

====
